---- MODULE Spec2Model ----
(***************************************************************************)
(* Compilatio importers: discovery -> checkpointed manifest fetch ->       *)
(* upsert into the shared SQLite database.                                 *)
(*                                                                         *)
(* Two importers are modelled, the two shapes the repository contains:     *)
(*   "Harvard"  scripts/importers/harvard.py  (Phase 2 fetch loop with a   *)
(*              checkpoint per item, then Phase 3 upsert with one commit;  *)
(*              the same shape as parker, ucla, john_rylands, ...)         *)
(*   "TCC"      scripts/importers/trinity_cambridge.py (one loop: look up, *)
(*              fetch, insert, commit and checkpoint per item)             *)
(* Both run against one database and each has its own discovery cache and  *)
(* checkpoint file.  One importer process runs at a time.                  *)
(*                                                                         *)
(* The functions that fetch a URL and build a record (fetch_url,           *)
(* parse_date, extract_metadata_value, the contents of a record) are       *)
(* modelled as operators and called by themselves in SpecBuild.            *)
(***************************************************************************)
EXTENDS Integers, Sequences, FiniteSets, TLC

\* ---------------------------------------------------------------- bounds
MaxRuns == 2          \* importer invocations in one behaviour
NumIds == 2           \* distinct discovery ids / shelfmarks of the source
MaxCatalogue == 2     \* length of the list the catalogue enumerates
PageSize == 1         \* entries on one result page of the catalogue
MaxTokens == 3        \* tokens of a date string
                      \* (RESULTS_PER_PAGE of harvard.py, there 20)

Importers == {"Harvard", "TCC"}
\* "NLW" scripts/importers/nlw.py: only its Phase 1 is modelled
AllImporters == Importers \cup {"NLW"}
Ids == 1..NumIds
Vals == 1..2
NoValue == 1          \* None in the record, NULL in the column

\* ------------------------------------------------------ the external source
\* What a manifest URL returns: nothing (timeout / non-200), a JSON body that
\* is not a manifest object, or a manifest.  sm = 0: the manifest carries no
\* shelfmark.  val stands for all the non-key columns (NoValue: the manifest
\* has nothing for them, record.get(...) is None).  bad: the row built
\* from it makes the INSERT/UPDATE raise (unsupported value type, constraint).
FailOutcome == [kind |-> "fail", sm |-> 0, val |-> 1, bad |-> FALSE]
MalformedOutcome == [kind |-> "malformed", sm |-> 0, val |-> 1, bad |-> FALSE]
Manifests == [kind : {"ok"}, sm : 0..NumIds, val : Vals, bad : BOOLEAN]
Outcomes == {FailOutcome} \cup
            {m \in Manifests : /\ m.sm # 0
                               /\ m.val = 2 => m.sm = 1
                               /\ m.bad => m.val = 2}

RECURSIVE SeqsUpTo(_)
SeqsUpTo(n) == IF n = 0 THEN {<<>>}
               ELSE LET S == SeqsUpTo(n - 1)
                    IN  S \cup {Append(s, x) : s \in {t \in S : Len(t) = n - 1}, x \in Ids}

Range(seq) == {seq[k] : k \in 1..Len(seq)}

\* the lists a catalogue enumerates; ids are numbered in the order of their
\* first appearance
Catalogues == {l \in SeqsUpTo(MaxCatalogue) :
                 \A k \in 1..Len(l) : l[k] <= Cardinality(Range(SubSeq(l, 1, k - 1))) + 1}

\* ------------------------------------------------------------ checkpoint
\* completed_ids / failed_ids are Python lists guarded by "not in" before
\* every append, i.e. sets.
EmptyProgress == [total |-> 0, completed |-> {}, failed |-> {}]
NoFile == [st |-> "absent", data |-> EmptyProgress]
CorruptFile == [st |-> "corrupt", data |-> EmptyProgress]
OkFile(p) == [st |-> "ok", data |-> p]
NoCache == [exists |-> FALSE, items |-> <<>>]

\* --test changes Phase 1 only (how far discovery pages and the cut of the
\* list): the command lines with --test are run in SpecDiscovery
Configs == [imp : Importers, dry_run : BOOLEAN, test_mode : {FALSE},
            resume : BOOLEAN, skip_discovery : BOOLEAN,
            discover_only : BOOLEAN, limit : 0..1]
TestConfigs == [imp : Importers, dry_run : BOOLEAN, test_mode : {TRUE},
                resume : BOOLEAN, skip_discovery : BOOLEAN,
                discover_only : BOOLEAN, limit : 0..1]
\* nlw.py has no --resume
NlwConfigs == [imp : {"NLW"}, dry_run : BOOLEAN, test_mode : BOOLEAN,
               resume : {FALSE}, skip_discovery : BOOLEAN,
               discover_only : BOOLEAN, limit : 0..1]
NoConfig == [imp |-> "Harvard", dry_run |-> TRUE, test_mode |-> FALSE,
             resume |-> FALSE, skip_discovery |-> FALSE,
             discover_only |-> FALSE, limit |-> 0]
ZeroStats == [inserted |-> 0, updated |-> 0, db_errors |-> 0,
              fetch_errors |-> 0, skipped |-> 0]
NoIntr == [at |-> "none", code |-> "none", items |-> <<>>, n |-> 0, proc |-> <<>>,
           mem |-> EmptyProgress, file |-> NoFile]

\* no manifest was fetched yet in this run
NoPace == [slept |-> TRUE, hasty |-> FALSE]
\* a manifest is requested: without the delay, if none elapsed since the last
fetched(p) == [slept |-> FALSE, hasty |-> p.hasty \/ ~p.slept]
\* time.sleep(MANIFEST_DELAY) / asyncio.sleep(REQUEST_DELAY)
delayed(p) == [p EXCEPT !.slept = TRUE]
\* no record-builder function was called
NoCall == [fn |-> "none"]

VARIABLES
    dbState,        \* "absent" | "noschema" (file without tables) | "ok"
    manuscripts,    \* committed rows [id, repository_id, shelfmark, val]
    repositories,   \* committed rows [id, short_name]
    cacheFile,      \* discovery cache file of each importer
    progressFile,   \* checkpoint file of each importer
    catalogue,      \* [up, list]: is the catalogue reachable, and the ids it enumerates
    manifest,       \* what each id's manifest URL returns
    pc,             \* "idle" | "p2_loop" | "save_open" | "save_dump"
    cfg,            \* command line of the current / last run
    progress,       \* in-memory checkpoint dict
    allItems,       \* item list after limits, before the resume filter
    items,          \* items_to_process
    i,              \* 1-based index of the next item
    records,        \* records parsed in Phase 2 (Harvard)
    txnM, txnR,     \* tables as seen through the open connection
    repo_id,
    stats,
    runs,
    lastExit,       \* "none" | "0" | "1" | "sigint" | "killed"
    \* history of the current run, for stating the properties
    startM, startR, startDb, startCache,
    net,            \* a network request was made in this run
    wrote,          \* a cache or checkpoint file was written in this run
    discovered,     \* "notrun" | "failed" | "empty" | "ok"
    procSeq,        \* ids whose Phase 2 processing was started, in order
    tally, shadow,  \* per-record classification of this run / of the other mode
    raised,         \* row writes that raised in this run
    intr,           \* the moment of the interruption this run resumes from
    repeat,         \* this run repeats the command line of the previous run,
                    \* which ended with exit code 0
    pace,           \* [slept, hasty]: has the inter-request delay elapsed
                    \* since the last manifest fetch of this run, and was a
                    \* manifest fetched without it
    call            \* the last call of a record-builder function:
                    \* its name, its arguments and what it returned

persistent == <<dbState, manuscripts, repositories, cacheFile, progressFile>>
source == <<catalogue, manifest>>
process == <<pc, cfg, progress, allItems, items, i, records, txnM, txnR,
             repo_id, stats, runs, lastExit>>
history == <<startM, startR, startDb, startCache, net, wrote,
             discovered, procSeq, tally, shadow, raised, intr, repeat, pace>>
vars == <<persistent, source, process, history, call>>

\* ------------------------------------------------------------ pure helpers
RECURSIVE Dedup(_, _)
\* harvard.py discover_from_biblissima: "Deduplicate by drs_id"
Dedup(list, seen) ==
    IF list = <<>> THEN <<>>
    ELSE IF Head(list) \in seen THEN Dedup(Tail(list), seen)
    ELSE <<Head(list)>> \o Dedup(Tail(list), seen \cup {Head(list)})

\* items[:n]
Take(list, n) == SubSeq(list, 1, IF n < Len(list) THEN n ELSE Len(list))

\* "if limit: items = items[:limit]"
ApplyLimit(list, limit) == IF limit # 0 THEN Take(list, limit) ELSE list

\* harvard.py / nlw.py "if test_mode: items = items[:5] elif limit: ..."
TestItems == 5
ApplyLimits(list, test_mode, limit) ==
    IF test_mode THEN Take(list, TestItems) ELSE ApplyLimit(list, limit)

\* the p-th result page of the catalogue (empty behind the last page)
Page(list, p) ==
    LET lo == (p - 1) * PageSize + 1
        hi == IF p * PageSize < Len(list) THEN p * PageSize ELSE Len(list)
    IN  IF lo > Len(list) THEN <<>> ELSE SubSeq(list, lo, hi)

\* sorted(set)
RECURSIVE Sorted(_)
Sorted(S) ==
    IF S = {} THEN <<>>
    ELSE LET m == CHOOSE x \in S : \A y \in S : x <= y
         IN  <<m>> \o Sorted(S \ {m})

\* harvard.py discover_from_biblissima: the page loop
MaxPages == 15
TestMaxPages == 2
TestStopAt == 10
RECURSIVE harvard_pages(_, _, _, _, _, _)
harvard_pages(list, page_num, max_pages, all_items, test_mode, limit) ==
    IF page_num > max_pages THEN all_items
    ELSE LET on_page == Dedup(Page(list, page_num), {})
             all2 == all_items \o on_page
         IN  IF on_page = <<>> THEN all_items
             ELSE IF test_mode /\ Len(all2) >= TestStopAt THEN all2
             ELSE IF limit # 0 /\ Len(all2) >= limit THEN all2
             ELSE harvard_pages(list, page_num + 1, max_pages, all2,
                                test_mode, limit)

discover_from_biblissima(list, test_mode, limit) ==
    LET max_pages == IF test_mode THEN TestMaxPages
                     ELSE IF limit # 0 THEN (limit \div PageSize) + 2
                     ELSE MaxPages
    IN  Dedup(harvard_pages(list, 1, max_pages, <<>>, test_mode, limit), {})

\* trinity_cambridge.py discover_manuscripts: the shelfmarks of every page,
\* each page deduplicated and sorted by itself
RECURSIVE discover_manuscripts(_, _, _)
discover_manuscripts(list, page_num, test_mode) ==
    LET on_page == Sorted(Range(Page(list, page_num)))
    IN  IF on_page = <<>> THEN <<>>
        ELSE IF test_mode \/ Page(list, page_num + 1) = <<>> THEN on_page
        ELSE on_page \o discover_manuscripts(list, page_num + 1, test_mode)

\* nlw.py discover_manuscripts: the browse pages, then the cut
NlwTestBrowse == 20
NlwTestItems == 5
RECURSIVE nlw_pages(_, _, _, _)
nlw_pages(list, page_num, all_items, max_browse_items) ==
    LET articles == Page(list, page_num)
        all2 == all_items \o articles
    IN  IF articles = <<>> THEN all_items
        ELSE IF max_browse_items # 0 /\ Len(all2) >= max_browse_items THEN all2
        ELSE IF Page(list, page_num + 1) = <<>> THEN all2
        ELSE nlw_pages(list, page_num + 1, all2, max_browse_items)

nlw_discover_manuscripts(list, test_mode, limit) ==
    LET max_browse_items == IF test_mode THEN NlwTestBrowse ELSE limit
        all_items == nlw_pages(list, 1, <<>>, max_browse_items)
    IN  IF test_mode THEN Take(all_items, NlwTestItems)
        ELSE ApplyLimit(all_items, limit)

\* mutant: the resume filter keeps every item
FilterCompleted_none(list, completed) == list

\* mutant: the condition of the filter is inverted
FilterCompleted_inverted(list, completed) ==
    LET keep(x) == x \in completed IN SelectSeq(list, keep)

\* [item for item in items if item not in completed]
FilterCompleted(list, completed) ==
    LET keep(x) == x \notin completed IN SelectSeq(list, keep)

load_progress(file) == IF file.st = "absent" THEN EmptyProgress ELSE file.data

\* mutant: the checkpoint file is loaded whether or not --resume is given
initial_progress_loaded(resume, file) == load_progress(file)

\* "progress = load_progress(PROGRESS_FILE) if resume else {...}"
initial_progress(resume, file) ==
    IF resume THEN load_progress(file) ELSE EmptyProgress

\* mutant: the id is not removed from failed_ids
mark_completed_sticky(p, id) == [p EXCEPT !.completed = @ \cup {id}]

mark_completed(p, id) ==
    [p EXCEPT !.completed = @ \cup {id}, !.failed = @ \ {id}]

mark_failed(p, id) == [p EXCEPT !.failed = @ \cup {id}]

MaxOf(S) == IF S = {} THEN 0 ELSE CHOOSE x \in S : \A y \in S : y <= x
MinOf(S) == CHOOSE x \in S : \A y \in S : x <= y

\* cursor.lastrowid of an INSERT into a rowid table
NextRowId(rows) == MaxOf({r.id : r \in rows}) + 1

\* mutant: the look-up uses the placeholder repository id of the dry-run
\* (repo_id = 1) instead of the importer's repository id
manuscript_exists_repo1(rows, shelfmark, repo) ==
    LET hit == {r.id : r \in {q \in rows : q.shelfmark = shelfmark
                                             /\ q.repository_id = 1}}
    IN  IF hit = {} THEN 0 ELSE CHOOSE x \in hit : \A y \in hit : x <= y

\* SELECT id FROM manuscripts WHERE shelfmark = ? AND repository_id = ?
\* fetchone(); 0 stands for None
manuscript_exists(rows, shelfmark, repo) ==
    LET hit == {r.id : r \in {q \in rows : q.shelfmark = shelfmark
                                             /\ q.repository_id = repo}}
    IN  IF hit = {} THEN 0 ELSE MinOf(hit)

\* the dry-run branch: SELECT id FROM manuscripts WHERE shelfmark = ?
dry_run_lookup(rows, shelfmark) == \E r \in rows : r.shelfmark = shelfmark

\* mutant: the row is inserted without the look-up by short_name
ensure_repository_insert(repos, short) ==
    <<repos \cup {[id |-> NextRowId(repos), short_name |-> short]},
      NextRowId(repos)>>

\* find-or-create by short_name; <<repositories, id>>
ensure_repository(repos, short) ==
    LET hit == {r.id : r \in {q \in repos : q.short_name = short}}
    IN  IF hit # {} THEN <<repos, MinOf(hit)>>
        ELSE <<repos \cup {[id |-> NextRowId(repos), short_name |-> short]},
               NextRowId(repos)>>

InsertRow(rows, repo, rec) ==
    rows \cup {[id |-> NextRowId(rows), repository_id |-> repo,
                shelfmark |-> rec.shelfmark, val |-> rec.val]}

\* mutant: a field-level merge, which keeps the old value of a column for
\* which the new record has none
UpdateRow_merge(rows, id, rec) ==
    {IF r.id = id /\ rec.val # NoValue THEN [r EXCEPT !.val = rec.val] ELSE r :
        r \in rows}

\* UPDATE manuscripts SET <non-key columns> WHERE id = ?
UpdateRow(rows, id, rec) ==
    {IF r.id = id THEN [r EXCEPT !.val = rec.val] ELSE r : r \in rows}

\* harvard.py parse_manifest: the shelfmark of the label / metadata, else
\* the fallback f"DRS {drs_id}" (a shelfmark no catalogue shelfmark equals)
harvard_parse_manifest(m, drs_id) ==
    [shelfmark |-> IF m.sm # 0 THEN m.sm ELSE NumIds + drs_id,
     val |-> m.val, bad |-> m.bad]

\* trinity_cambridge.py parse_manifest: the discovery id is the shelfmark
trinity_parse_manifest(m, shelfmark) ==
    [shelfmark |-> shelfmark, val |-> m.val, bad |-> m.bad]

\* harvard.py "if not dry_run: conn.commit()"
HarvardCommits(dry_run) == ~dry_run

\* mutant: the insert is not guarded by the dry-run flag
TrinityInserts_always(dry_run) == TRUE

\* trinity_cambridge.py "if not dry_run: insert_manuscript(...); conn.commit()"
TrinityInserts(dry_run) == ~dry_run

\* harvard.py calls mark_completed / mark_failed in both modes;
\* trinity_cambridge.py only under "if not dry_run"
HarvardCheckpoints(dry_run) == TRUE
TrinityCheckpoints(dry_run) == ~dry_run

RECURSIVE harvard_phase3_silent(_, _, _, _)
\* mutant: the except branch does not count the record
harvard_phase3_silent(recs, rows, repo, dry_run) ==
    IF recs = <<>> THEN [rows |-> rows, tally |-> <<>>]
    ELSE LET r == Head(recs)
             existing_id == manuscript_exists(rows, r.shelfmark, repo)
             step == IF dry_run
                     THEN [rows |-> rows,
                           t |-> IF dry_run_lookup(rows, r.shelfmark)
                                 THEN <<"updated">> ELSE <<"inserted">>]
                     ELSE IF r.bad THEN [rows |-> rows, t |-> <<>>]
                     ELSE IF existing_id # 0
                     THEN [rows |-> UpdateRow(rows, existing_id, r),
                           t |-> <<"updated">>]
                     ELSE [rows |-> InsertRow(rows, repo, r),
                           t |-> <<"inserted">>]
             rest == harvard_phase3_silent(Tail(recs), step.rows, repo, dry_run)
         IN  [rows |-> rest.rows, tally |-> step.t \o rest.tally]

RECURSIVE harvard_phase3(_, _, _, _)
\* harvard.py Phase 3 "for record in records": the tables after the loop and
\* what each record was counted as
harvard_phase3(recs, rows, repo, dry_run) ==
    IF recs = <<>> THEN [rows |-> rows, tally |-> <<>>]
    ELSE LET r == Head(recs)
             existing_id == manuscript_exists(rows, r.shelfmark, repo)
             step == IF dry_run
                     THEN [rows |-> rows,
                           t |-> IF dry_run_lookup(rows, r.shelfmark)
                                 THEN "updated" ELSE "inserted"]
                     ELSE IF r.bad THEN [rows |-> rows, t |-> "error"]
                     ELSE IF existing_id # 0
                     THEN [rows |-> UpdateRow(rows, existing_id, r), t |-> "updated"]
                     ELSE [rows |-> InsertRow(rows, repo, r), t |-> "inserted"]
             rest == harvard_phase3(Tail(recs), step.rows, repo, dry_run)
         IN  [rows |-> rest.rows, tally |-> <<step.t>> \o rest.tally]

Count(seq, x) == Cardinality({k \in 1..Len(seq) : seq[k] = x})

\* ------------------------------------------------------------------ state
Cur == [dbState |-> dbState, manuscripts |-> manuscripts,
        repositories |-> repositories, cacheFile |-> cacheFile,
        progressFile |-> progressFile, pc |-> pc, cfg |-> cfg,
        progress |-> progress, allItems |-> allItems, items |-> items,
        i |-> i, records |-> records, txnM |-> txnM, txnR |-> txnR,
        repo_id |-> repo_id, stats |-> stats, runs |-> runs,
        lastExit |-> lastExit, startM |-> startM, startR |-> startR,
        startDb |-> startDb, startCache |-> startCache,
        net |-> net, wrote |-> wrote,
        discovered |-> discovered, procSeq |-> procSeq, tally |-> tally,
        shadow |-> shadow, raised |-> raised, intr |-> intr,
        repeat |-> repeat, pace |-> pace]

Set(n) ==
    /\ dbState' = n.dbState /\ manuscripts' = n.manuscripts
    /\ repositories' = n.repositories /\ cacheFile' = n.cacheFile
    /\ progressFile' = n.progressFile /\ pc' = n.pc /\ cfg' = n.cfg
    /\ progress' = n.progress /\ allItems' = n.allItems /\ items' = n.items
    /\ i' = n.i /\ records' = n.records /\ txnM' = n.txnM /\ txnR' = n.txnR
    /\ repo_id' = n.repo_id /\ stats' = n.stats /\ runs' = n.runs
    /\ lastExit' = n.lastExit /\ startM' = n.startM /\ startR' = n.startR
    /\ startDb' = n.startDb /\ startCache' = n.startCache
    /\ net' = n.net /\ wrote' = n.wrote
    /\ discovered' = n.discovered /\ procSeq' = n.procSeq /\ tally' = n.tally
    /\ shadow' = n.shadow /\ raised' = n.raised /\ intr' = n.intr
    /\ repeat' = n.repeat /\ pace' = n.pace
    /\ UNCHANGED <<source, call>>

\* the process ends: the connection is closed, uncommitted work is rolled back
Exit(n, code) == [n EXCEPT !.pc = "idle", !.lastExit = code,
                           !.txnM = {}, !.txnR = {}]

\* a fresh process with command line c
Fresh(c) ==
    [Cur EXCEPT !.cfg = c, !.runs = runs + 1, !.pc = "p2_loop",
                !.lastExit = "none", !.progress = EmptyProgress,
                !.allItems = <<>>, !.items = <<>>, !.i = 1, !.records = <<>>,
                !.txnM = {}, !.txnR = {}, !.repo_id = 0, !.stats = ZeroStats,
                !.startM = manuscripts, !.startR = repositories,
                !.startDb = dbState, !.startCache = cacheFile[c.imp].exists,
                !.net = FALSE,
                !.wrote = FALSE, !.discovered = "notrun", !.procSeq = <<>>,
                !.tally = <<>>, !.shadow = <<>>, !.raised = 0,
                !.pace = NoPace,
                !.repeat = (runs > 0 /\ c = cfg /\ lastExit = "0"),
                !.intr = IF /\ lastExit \in {"sigint", "killed"}
                            /\ c = [cfg EXCEPT !.resume = TRUE]
                         THEN intr ELSE NoIntr]

DiscoveryResult(ran, list) ==
    IF ~ran THEN "notrun"
    ELSE IF ~catalogue.up THEN "failed"
    ELSE IF list = <<>> THEN "empty" ELSE "ok"

\* ---------------------------------------------------------------- Harvard
\* import_harvard from its entry to the head of the Phase 2 loop
HarvardBegin(c) ==
    LET H == "Harvard"
        file == progressFile[H]
        cache == cacheFile[H]
        base == Fresh(c)
        prog0 == initial_progress(c.resume, file)
        useCache == c.skip_discovery \/ (c.resume /\ cache.exists)
        disc == IF useCache THEN cache.items
                ELSE IF catalogue.up
                THEN discover_from_biblissima(catalogue.list, c.test_mode, c.limit)
                ELSE <<>>
        saved == ~useCache /\ disc # <<>>
        prog1 == IF saved THEN [prog0 EXCEPT !.total = Len(disc)] ELSE prog0
        n1 == [base EXCEPT
                 !.net = ~useCache, !.wrote = saved,
                 !.discovered = DiscoveryResult(~useCache, disc),
                 !.cacheFile = IF saved
                     THEN [cacheFile EXCEPT ![H] = [exists |-> TRUE, items |-> disc]]
                     ELSE cacheFile,
                 !.progressFile = IF saved
                     THEN [progressFile EXCEPT ![H] = OkFile(prog1)]
                     ELSE progressFile,
                 !.progress = prog1]
        lim == ApplyLimits(disc, c.test_mode, c.limit)
        n2 == [n1 EXCEPT !.allItems = lim]
        toProcess == IF c.resume /\ prog1.completed # {}
                     THEN FilterCompleted(lim, prog1.completed) ELSE lim
    IN  IF c.resume /\ file.st = "corrupt" THEN Exit(base, "1")
        ELSE IF c.skip_discovery /\ ~cache.exists THEN Exit(base, "1")
        ELSE IF disc = <<>> THEN Exit(n1, "1")
        ELSE IF c.discover_only THEN Exit(n2, "0")
        ELSE IF dbState = "absent" THEN Exit(n2, "1")
        ELSE [n2 EXCEPT !.items = toProcess]

HarvardStart ==
    /\ pc = "idle" /\ runs < MaxRuns
    /\ \E c \in Configs : c.imp = "Harvard" /\ Set(HarvardBegin(c))

\* one iteration of "for i, item in enumerate(items_to_process)" up to the
\* call of save_progress
HarvardItemStep ==
    LET drs_id == items[i]
        m == manifest[drs_id]
        n0 == [Cur EXCEPT !.net = TRUE, !.procSeq = Append(procSeq, drs_id),
                          !.pace = fetched(pace)]
        \* "if i < len(items_to_process) - 1: time.sleep(MANIFEST_DELAY)" at
        \* the end of the loop body, which "continue" does not reach (it
        \* follows save_progress; pace is read by the next fetch only)
        rate_limit(n) == IF i < Len(items)
                         THEN [n EXCEPT !.pace = delayed(n.pace)] ELSE n
        marked(p) == IF HarvardCheckpoints(cfg.dry_run)
                     THEN [n0 EXCEPT !.progress = p, !.pc = "save_open"]
                     ELSE [n0 EXCEPT !.i = i + 1]
    IN  IF m.kind = "fail"
        THEN [marked(mark_failed(progress, drs_id)) EXCEPT
                 !.stats.fetch_errors = @ + 1]
        ELSE IF m.kind = "malformed" THEN Exit(n0, "1")
        ELSE rate_limit([marked(mark_completed(progress, drs_id)) EXCEPT
                 !.records = Append(records, harvard_parse_manifest(m, drs_id))])

HarvardItem ==
    /\ pc = "p2_loop" /\ cfg.imp = "Harvard" /\ i <= Len(items)
    /\ Set(HarvardItemStep)

\* Phase 3 and the end of import_harvard
HarvardPhase3Step ==
    LET dry == cfg.dry_run
        er == ensure_repository(repositories, "Harvard")
        repos == IF dry THEN repositories ELSE er[1]
        repo == IF dry THEN 1 ELSE er[2]
        res == harvard_phase3(records, manuscripts, repo, dry)
        other == harvard_phase3(records, manuscripts,
                                IF dry THEN er[2] ELSE 1, ~dry)
        commit == HarvardCommits(dry)
        n == [Cur EXCEPT
                !.repo_id = repo, !.tally = res.tally, !.shadow = other.tally,
                !.stats.inserted = Count(res.tally, "inserted"),
                !.stats.updated = Count(res.tally, "updated"),
                !.stats.db_errors = Count(res.tally, "error"),
                !.raised = Count(res.tally, "error"),
                !.manuscripts = IF commit THEN res.rows ELSE manuscripts,
                !.repositories = IF commit THEN repos ELSE repositories]
    IN  IF dbState = "noschema" /\ (~dry \/ records # <<>>)
        THEN Exit(Cur, "1")
        ELSE Exit(n, "0")

HarvardPhase3 ==
    /\ pc = "p2_loop" /\ cfg.imp = "Harvard" /\ i > Len(items)
    /\ Set(HarvardPhase3Step)

\* ------------------------------------------------------- checkpoint write
\* save_progress: open(progress_path, "w") truncates the file ...
SaveOpen ==
    /\ pc = "save_open"
    /\ Set([Cur EXCEPT !.progressFile[cfg.imp] = CorruptFile,
                       !.wrote = TRUE, !.pc = "save_dump"])

\* ... and json.dump followed by the close writes the new content
SaveDump ==
    /\ pc = "save_dump"
    /\ Set([Cur EXCEPT !.progressFile[cfg.imp] = OkFile(progress),
                       !.i = i + 1, !.pc = "p2_loop"])

\* ------------------------------------------------------ Trinity Cambridge
\* import_trinity from its entry to the head of the item loop
TrinityBegin(c) ==
    LET T == "TCC"
        file == progressFile[T]
        cache == cacheFile[T]
        base == Fresh(c)
        prog0 == initial_progress(c.resume, file)
        useCache == c.skip_discovery /\ cache.exists
        shelfmarks == IF useCache THEN cache.items
                      ELSE discover_manuscripts(catalogue.list, 1, c.test_mode)
        prog1 == IF useCache THEN prog0
                 ELSE [prog0 EXCEPT !.total = Len(shelfmarks)]
        n1 == IF useCache THEN [base EXCEPT !.progress = prog0]
              ELSE [base EXCEPT
                      !.net = TRUE, !.wrote = TRUE,
                      !.discovered = DiscoveryResult(TRUE, shelfmarks),
                      !.cacheFile[T] = [exists |-> TRUE, items |-> shelfmarks],
                      !.progressFile[T] = OkFile(prog1),
                      !.progress = prog1]
        lim == ApplyLimit(shelfmarks, c.limit)
        toProcess == IF c.resume THEN FilterCompleted(lim, prog1.completed)
                     ELSE lim
        \* sqlite3.connect creates the database file when it is missing
        db == IF dbState = "absent" THEN "noschema" ELSE dbState
        er == ensure_repository(repositories, T)
        n2 == [n1 EXCEPT !.allItems = lim, !.items = toProcess, !.dbState = db]
    IN  IF c.resume /\ file.st = "corrupt" THEN Exit(base, "1")
        ELSE IF ~useCache /\ ~catalogue.up
        THEN Exit([base EXCEPT !.net = TRUE, !.discovered = "failed"], "1")
        ELSE IF ~useCache /\ c.discover_only THEN Exit(n1, "0")
        ELSE IF db = "noschema" THEN Exit(n2, "1")
        ELSE [n2 EXCEPT !.txnM = manuscripts, !.txnR = er[1], !.repo_id = er[2]]

TrinityStart ==
    /\ pc = "idle" /\ runs < MaxRuns
    /\ \E c \in Configs : c.imp = "TCC" /\ Set(TrinityBegin(c))

\* one iteration of "for i, shelfmark in enumerate(shelfmarks, 1)" up to the
\* call of save_progress
TrinityItemStep ==
    LET shelfmark == items[i]
        dry == cfg.dry_run
        m == manifest[shelfmark]
        existing_id == manuscript_exists(txnM, shelfmark, repo_id)
        n0 == [Cur EXCEPT !.procSeq = Append(procSeq, shelfmark)]
        marked(n, p) == IF TrinityCheckpoints(dry)
                        THEN [n EXCEPT !.progress = p, !.pc = "save_open"]
                        ELSE [n EXCEPT !.i = i + 1]
        \* "await asyncio.sleep(REQUEST_DELAY)" before fetch_manifest
        nf == [n0 EXCEPT !.net = TRUE, !.pace = fetched(delayed(pace))]
        record == trinity_parse_manifest(m, shelfmark)
        rows == InsertRow(txnM, repo_id, record)
    IN  IF existing_id # 0
        THEN [marked(n0, mark_completed(progress, shelfmark)) EXCEPT
                 !.stats.skipped = @ + 1, !.tally = Append(tally, "skipped")]
        ELSE IF m.kind # "ok"
        THEN [marked(nf, mark_failed(progress, shelfmark)) EXCEPT
                 !.stats.fetch_errors = @ + 1, !.tally = Append(tally, "failed")]
        ELSE IF ~TrinityInserts(dry)
        THEN [nf EXCEPT !.i = i + 1, !.stats.inserted = @ + 1,
                        !.tally = Append(tally, "inserted")]
        ELSE IF record.bad
        THEN Exit([nf EXCEPT !.raised = @ + 1], "1")
        ELSE [nf EXCEPT \* insert_manuscript; conn.commit(); mark_completed
                 !.txnM = rows, !.manuscripts = rows, !.repositories = txnR,
                 !.progress = mark_completed(progress, shelfmark),
                 !.pc = "save_open",
                 !.stats.inserted = @ + 1, !.tally = Append(tally, "inserted")]

TrinityItem ==
    /\ pc = "p2_loop" /\ cfg.imp = "TCC" /\ i <= Len(items)
    /\ Set(TrinityItemStep)

\* the summary, "finally: conn.close()", and the return to main
TrinityFinish ==
    /\ pc = "p2_loop" /\ cfg.imp = "TCC" /\ i > Len(items)
    /\ Set(Exit(Cur, "0"))

\* ------------------------------------------------------------ interruption
Interrupted(code) ==
    Exit([Cur EXCEPT !.intr = [at |-> pc, code |-> code, items |-> items, n |-> i - 1,
                               proc |-> procSeq, mem |-> progress,
                               file |-> progressFile[cfg.imp]]], code)

\* Ctrl-C: KeyboardInterrupt unwinds to main(), which logs and exits (or,
\* in harvard.py, is not caught at all)
Sigint == pc # "idle" /\ Set(Interrupted("sigint"))

\* SIGKILL / power loss
Kill == pc # "idle" /\ Set(Interrupted("killed"))

\* -------------------------------------------------------------------- spec
InitOver(outcomes) ==
    /\ dbState \in {"absent", "ok"}
    /\ manuscripts = {} /\ repositories = {}
    /\ cacheFile = [x \in AllImporters |-> NoCache]
    /\ progressFile = [x \in AllImporters |-> NoFile]
    /\ catalogue \in {[up |-> FALSE, list |-> <<>>]} \cup
                     {[up |-> TRUE, list |-> l] : l \in Catalogues}
    /\ manifest \in [Ids -> outcomes]
    /\ \A x \in Ids \ Range(catalogue.list) : manifest[x] = FailOutcome
    /\ pc = "idle" /\ cfg = NoConfig /\ progress = EmptyProgress
    /\ allItems = <<>> /\ items = <<>> /\ i = 1 /\ records = <<>>
    /\ txnM = {} /\ txnR = {} /\ repo_id = 0 /\ stats = ZeroStats
    /\ runs = 0 /\ lastExit = "none"
    /\ startM = {} /\ startR = {} /\ startDb = dbState
    /\ startCache = FALSE
    /\ net = FALSE /\ wrote = FALSE /\ discovered = "notrun"
    /\ procSeq = <<>> /\ tally = <<>> /\ shadow = <<>> /\ raised = 0
    /\ intr = NoIntr /\ repeat = FALSE
    /\ pace = NoPace /\ call = NoCall

Init == InitOver(Outcomes)

Next ==
    \/ HarvardStart \/ HarvardItem \/ HarvardPhase3
    \/ TrinityStart \/ TrinityItem \/ TrinityFinish
    \/ SaveOpen \/ SaveDump
    \/ Sigint \/ Kill

Spec == Init /\ [][Next]_vars

\* Between two runs the library revises the description of an item: the
\* manifest URL returns the same object with other values (fetch_manifest /
\* fetch_json read whatever the server holds at the time of the run).
SourceChange ==
    /\ pc = "idle" /\ runs > 0 /\ runs < MaxRuns
    /\ \E x \in Range(catalogue.list) : \E o \in Outcomes :
          /\ manifest[x].kind = "ok" /\ o.kind = "ok"
          /\ o.sm = manifest[x].sm /\ o.val # manifest[x].val
          /\ manifest' = [manifest EXCEPT ![x] = o]
    \* the outcome of the last run no longer describes the current source
    /\ lastExit' = "none"
    /\ UNCHANGED <<persistent, catalogue, history, pc, cfg, progress, allItems,
                   items, i, records, txnM, txnR, repo_id, stats, runs, call>>

NextChange == Next \/ SourceChange

\* the importers run against a source that changes between the runs
SpecChange == Init /\ [][NextChange]_vars

\* The importers run against a source some of whose manifests name no
\* shelfmark (sm = 0): no "MS ..." in the label, no "Call Number" and no
\* "Shelfmark" entry in the metadata.
BareOutcomes == {FailOutcome} \cup
                {m \in Manifests : m.sm \in {0, 1} /\ m.val = 1 /\ ~m.bad}

InitBare == InitOver(BareOutcomes)

SpecBare == InitBare /\ [][Next]_vars

TypeOK ==
    /\ dbState \in {"absent", "noschema", "ok"}
    /\ pc \in {"idle", "p2_loop", "save_open", "save_dump"}
    /\ lastExit \in {"none", "0", "1", "sigint", "killed"}
    /\ cfg \in Configs \cup TestConfigs \cup NlwConfigs
    /\ runs \in 0..MaxRuns
    /\ pace \in [slept : BOOLEAN, hasty : BOOLEAN]
    /\ call.fn \in {"none", "fetch", "contents", "parse_date", "crawl_collection",
                    "discover_manuscripts", "classify",
                    "extract_metadata_value"}

\* ------------------------------------------------------- Phase 1 by itself
\* import_nlw from its entry to the head of its Phase 2 loop.  nlw.py keeps
\* no checkpoint.  Every detail page is taken to carry its handle PID.
NlwBegin(c) ==
    LET N == "NLW"
        cache == cacheFile[N]
        base == Fresh(c)
        loaded == ~c.skip_discovery /\ cache.exists
        crawl == ~c.skip_discovery /\ ~cache.exists
        found == nlw_discover_manuscripts(catalogue.list, c.test_mode, c.limit)
        its == IF crawl THEN found
               ELSE IF c.test_mode THEN Take(cache.items, NlwTestItems)
               ELSE ApplyLimit(cache.items, c.limit)
        n1 == [base EXCEPT
                 !.net = crawl, !.wrote = crawl,
                 !.discovered = DiscoveryResult(crawl, found),
                 !.cacheFile[N] = IF crawl THEN [exists |-> TRUE, items |-> found]
                                  ELSE cache,
                 !.allItems = its]
    IN  IF ~loaded /\ ~crawl THEN Exit(base, "1")   \* "No discovery data available"
        ELSE IF c.discover_only THEN Exit(n1, "0")
        ELSE IF dbState = "absent" THEN Exit(n1, "1")
        ELSE [n1 EXCEPT !.items = its]

\* the crawl of a site that does not answer is left out
NlwStart ==
    /\ pc = "idle" /\ runs < MaxRuns
    /\ \E c \in NlwConfigs :
          /\ (~c.skip_discovery /\ ~cacheFile["NLW"].exists) => catalogue.up
          /\ Set(NlwBegin(c))

HarvardTestStart ==
    /\ pc = "idle" /\ runs < MaxRuns
    /\ \E c \in TestConfigs : c.imp = "Harvard" /\ Set(HarvardBegin(c))

TrinityTestStart ==
    /\ pc = "idle" /\ runs < MaxRuns
    /\ \E c \in TestConfigs : c.imp = "TCC" /\ Set(TrinityBegin(c))

\* Phase 1 of the three importers; the run is stopped at the head of Phase 2
InitDiscovery == Init /\ manifest = [x \in Ids |-> FailOutcome]

NextDiscovery ==
    \/ HarvardStart \/ HarvardTestStart
    \/ TrinityStart \/ TrinityTestStart
    \/ NlwStart \/ Kill

SpecDiscovery == InitDiscovery /\ [][NextDiscovery]_vars

\* ------------------------------------------------ the checkpoint functions
\* mark_completed / mark_failed called on any checkpoint that load_progress
\* can return: the lists are changed in memory, then save_progress writes
\* the file.  procSeq holds the id of the call, tally which call it was.
Progresses == [total : 0..MaxCatalogue, completed : SUBSET Ids,
               failed : SUBSET Ids]

InitMark ==
    /\ dbState = "ok" /\ manuscripts = {} /\ repositories = {}
    /\ cacheFile = [x \in AllImporters |-> NoCache]
    /\ catalogue = [up |-> FALSE, list |-> <<>>]
    /\ manifest = [x \in Ids |-> FailOutcome]
    /\ pc = "p2_loop" /\ cfg = NoConfig
    /\ progress \in Progresses
    /\ progressFile = [x \in AllImporters |->
                          IF x = cfg.imp THEN OkFile(progress) ELSE NoFile]
    /\ allItems = <<>> /\ items = <<>> /\ i = 1 /\ records = <<>>
    /\ txnM = {} /\ txnR = {} /\ repo_id = 0 /\ stats = ZeroStats
    /\ runs = 1 /\ lastExit = "none"
    /\ startM = {} /\ startR = {} /\ startDb = dbState
    /\ startCache = FALSE
    /\ net = FALSE /\ wrote = FALSE /\ discovered = "notrun"
    /\ procSeq = <<>> /\ tally = <<>> /\ shadow = <<>> /\ raised = 0
    /\ intr = NoIntr /\ repeat = FALSE
    /\ pace = NoPace /\ call = NoCall

MarkCompletedCall ==
    /\ pc = "p2_loop"
    /\ \E id \in Ids :
          Set([Cur EXCEPT !.progress = mark_completed(progress, id),
                          !.procSeq = <<id>>, !.tally = <<"completed">>,
                          !.i = 1, !.pc = "save_open"])

MarkFailedCall ==
    /\ pc = "p2_loop"
    /\ \E id \in Ids :
          Set([Cur EXCEPT !.progress = mark_failed(progress, id),
                          !.procSeq = <<id>>, !.tally = <<"failed">>,
                          !.i = 1, !.pc = "save_open"])

NextMark == MarkCompletedCall \/ MarkFailedCall \/ SaveOpen \/ SaveDump

SpecMark == InitMark /\ [][NextMark]_vars

\* the same calls on the checkpoint of a run started without --resume
InitMarkEmpty == InitMark /\ progress = EmptyProgress

SpecMarkEmpty == InitMarkEmpty /\ [][NextMark]_vars

\* --------------------------------------------- the record-builder functions
\* The functions the importers build a record with, each called by itself on
\* inputs drawn from a bounded set; call holds the call and what it returned.

\* What one urlopen(...) / resp.read() of a URL does: a 200 answer with a
\* JSON body, or one of the exceptions of urllib.  A non-200 status raises
\* HTTPError; a refused connection or a timeout while connecting raises
\* URLError; a timeout while the answer is read raises TimeoutError
\* (socket.timeout), which is an OSError and not a URLError.
AttemptOutcomes == {"ok", "HTTPError", "URLError", "TimeoutError"}

\* "retries: int = 3", the default every caller uses
Retries == 3

\* the except clause of each fetch function
Caught(imp) ==
    IF imp = "cambridge" THEN {"HTTPError", "URLError", "JSONDecodeError"}
    ELSE IF imp = "huntington"
    THEN {"HTTPError", "URLError", "JSONDecodeError", "TimeoutError", "OSError"}
    ELSE {"HTTPError", "URLError", "TimeoutError", "OSError"}

\* cambridge.py fetch_json has no loop: one attempt
Attempts(imp) == IF imp = "cambridge" THEN 1 ELSE Retries

RECURSIVE fetch_attempts(_, _, _, _)
\* "for attempt in range(retries): try: ... return body / except (...): if
\* attempt < retries - 1: sleep(2) else: return None"; an exception the
\* clause does not name leaves the function.  outs[k] is what the k-th
\* request does.
fetch_attempts(outs, attempt, retries, caught) ==
    IF attempt >= retries THEN [ret |-> "None", attempts |-> attempt]
    ELSE LET o == outs[attempt + 1]
         IN  IF o = "ok" THEN [ret |-> "body", attempts |-> attempt + 1]
             ELSE IF o \notin caught
             THEN [ret |-> "raise", attempts |-> attempt + 1]
             ELSE IF attempt < retries - 1
             THEN fetch_attempts(outs, attempt + 1, retries, caught)
             ELSE [ret |-> "None", attempts |-> attempt + 1]

\* harvard.py fetch_url / huntington.py fetch_json / cambridge.py fetch_json
fetch_url(imp, outs) == fetch_attempts(outs, 0, Attempts(imp), Caught(imp))

FetchCall ==
    /\ call = NoCall
    /\ \E imp \in {"harvard", "huntington", "cambridge"} :
       \E outs \in [1..Retries -> AttemptOutcomes] :
          call' = [fn |-> "fetch", imp |-> imp, in |-> outs,
                   out |-> fetch_url(imp, outs)]
    /\ UNCHANGED <<persistent, source, process, history>>

\* A text is modelled by its length and by whether it ends with the marker
\* "..."; the texts of the source do not.  NoText: "" / None.
ContentsLimit == 1000
Text(n) == [len |-> n, dots |-> FALSE]
NoText == Text(0)
Lengths == {0, 1, ContentsLimit - 1, ContentsLimit, ContentsLimit + 1,
            2 * ContentsLimit}

\* text[:n]
Slice(t, n) == IF t.len > n THEN Text(n) ELSE t

\* "if len(label) > 1000: label = label[:997] + '...'"
Truncate(t) ==
    IF t.len > ContentsLimit
    THEN [len |-> (ContentsLimit - 3) + 3, dots |-> TRUE] ELSE t

\* harvard.py extract_title_from_label; label is what is left of the manifest
\* label when the shelfmark, what follows it and the trailing punctuation
\* are cut off
extract_title_from_label(label) == Truncate(label)

\* record["contents"] as each record builder sets it (NoText: the key is not
\* set).  label: the title part of the manifest label; title: the "Title"
\* entry of the metadata / title_tesim of the catalogue; stub: the title of
\* the discovery stub.
Contents(imp, label, title, stub) ==
    IF imp = "harvard"
    THEN LET t1 == extract_title_from_label(label)
             t2 == IF t1 = NoText THEN title ELSE t1
         IN  IF t2 = NoText THEN stub ELSE t2
    ELSE IF imp = "lambeth"
    THEN (IF title.len > ContentsLimit THEN Slice(title, ContentsLimit) ELSE title)
    ELSE Slice(title, ContentsLimit)          \* ucla.py build_record

ContentsCall ==
    /\ call = NoCall
    /\ \E imp \in {"harvard", "lambeth", "ucla"} :
       \E label \in Lengths, title \in Lengths, stub \in Lengths :
          /\ imp # "harvard" => label = 0 /\ stub = 0
          /\ call' = [fn |-> "contents", imp |-> imp,
                      in |-> [label |-> label, title |-> title, stub |-> stub],
                      out |-> Contents(imp, Text(label), Text(title), Text(stub))]
    /\ UNCHANGED <<persistent, source, process, history>>

\* A date string is a sequence of tokens, written with one blank between
\* them: "ca.", "-", a year of four digits, an ordinal century ("15th
\* century") and a Roman numeral ("XV").
NoYear == 0 - 1                      \* None
Years == {1300, 1420}
Centuries == 1..20
Ca == [t |-> "ca", n |-> 0]
Dash == [t |-> "dash", n |-> 0]
Year(y) == [t |-> "year", n |-> y]
Ordinal(c) == [t |-> "ord", n |-> c]
Roman(c) == [t |-> "roman", n |-> c]
\* a word that has the letters "ca" in it and is no circa marker ("Cambridge")
Place == [t |-> "place", n |-> 0]
BaseTokens == {Ca, Dash, Place} \cup {Year(y) : y \in Years}
                  \cup {Ordinal(14), Ordinal(15), Roman(13), Roman(15)}

RECURSIVE TokenSeqs(_)
TokenSeqs(n) ==
    IF n = 0 THEN {<<>>}
    ELSE LET S == TokenSeqs(n - 1)
         IN  S \cup {Append(q, tk) : q \in {r \in S : Len(r) = n - 1},
                                      tk \in BaseTokens}

\* every string of up to MaxTokens base tokens, and every century by itself
DateStrings == TokenSeqs(MaxTokens)
                   \cup {<<Ordinal(c)>> : c \in Centuries}
                   \cup {<<Roman(c)>> : c \in Centuries}

IsYear(tk) == tk.t = "year"
IsOrdinal(tk) == tk.t = "ord"
NotCa(tk) == tk.t # "ca"
Last(q) == q[Len(q)]

\* re.findall(r"\b(\d{4})\b", ...): two or more years, or one
explicit_years(q) ==
    LET years == SelectSeq(q, IsYear)
    IN  IF Len(years) >= 2 THEN <<years[1].n, Last(years).n>>
        ELSE IF Len(years) = 1 THEN <<years[1].n, years[1].n>>
        ELSE <<NoYear, NoYear>>

\* re.findall(r"(\d{1,2})(?:st|nd|rd|th)\s*century", ...)
century_pattern(q) ==
    LET century_matches == SelectSeq(q, IsOrdinal)
    IN  IF century_matches # <<>>
        THEN <<(century_matches[1].n - 1) * 100,
               (Last(century_matches).n - 1) * 100 + 99>>
        ELSE <<NoYear, NoYear>>

\* huntington.py parse_date
huntington_parse_date(q) ==
    IF q = <<>> THEN <<NoYear, NoYear>>
    ELSE IF explicit_years(q) # <<NoYear, NoYear>> THEN explicit_years(q)
    ELSE century_pattern(q)

\* harvard.py parse_date: "'ca' in date_str.lower() or 'circa' in ...", a test
\* for the two letters anywhere in the string
ContainsCa(q) == \E k \in 1..Len(q) : q[k].t \in {"ca", "place"}

\* harvard.py parse_date: "ca." is removed before the years are searched,
\* and a single year of a string that contains "ca" is widened
HarvardCirca == 25
harvard_parse_date(q) ==
    LET date_str_clean == SelectSeq(q, NotCa)
        years == SelectSeq(date_str_clean, IsYear)
    IN  IF q = <<>> THEN <<NoYear, NoYear>>
        ELSE IF Len(years) >= 2 THEN <<years[1].n, Last(years).n>>
        ELSE IF Len(years) = 1
        THEN (IF ContainsCa(q)
              THEN <<years[1].n - HarvardCirca, years[1].n + HarvardCirca>>
              ELSE <<years[1].n, years[1].n>>)
        ELSE century_pattern(q)

\* ucla.py parse_date_range; its rules are anchored at the start of the
\* string, except the last.  Rules 2, 4, 5, 7, 8 and 9 need a token that the
\* strings here do not have (a short number, "before", a fraction, "med").
UclaCirca == 10
parse_date_range(q) ==
    LET is_circa == Len(q) >= 2 /\ q[1] = Ca         \* r'^ca\.?\s'
        r == IF q # <<>> /\ q[1] = Ca THEN Tail(q) ELSE q
        ords == SelectSeq(r, IsOrdinal)
    IN  IF q = <<>> \/ r = <<>> THEN <<NoYear, NoYear>>
        ELSE IF r[1].t = "year"
        THEN (IF Len(r) >= 3 /\ r[2] = Dash /\ r[3].t = "year"
              THEN <<r[1].n, r[3].n>>                               \* rule 1
              ELSE IF is_circa
              THEN <<r[1].n - UclaCirca, r[1].n + UclaCirca>>       \* rule 3
              ELSE <<r[1].n, r[1].n>>)
        ELSE IF r[1].t = "roman"
        THEN (IF Len(r) >= 3 /\ r[2] = Dash /\ r[3].t = "roman"
              THEN <<(r[1].n - 1) * 100, r[3].n * 100 - 1>>         \* rule 6
              ELSE <<(r[1].n - 1) * 100, r[1].n * 100 - 1>>)        \* rule 10
        ELSE IF ords # <<>>
        THEN <<(ords[1].n - 1) * 100, ords[1].n * 100 - 1>>         \* rule 11
        ELSE <<NoYear, NoYear>>

\* lambeth.py parse_manifest, "Date of Creation": explicit years only
lambeth_dates(q) == explicit_years(q)

parse_date(imp, q) ==
    IF imp = "harvard" THEN harvard_parse_date(q)
    ELSE IF imp = "huntington" THEN huntington_parse_date(q)
    ELSE IF imp = "ucla" THEN parse_date_range(q)
    ELSE lambeth_dates(q)

\* record["date_start"] / record["date_end"]: "if start: ..." and "if end:
\* ..." leave out None and 0; lambeth.py sets both or none
record_dates(imp, d) ==
    IF imp = "lambeth" THEN d
    ELSE <<IF d[1] = 0 THEN NoYear ELSE d[1], IF d[2] = 0 THEN NoYear ELSE d[2]>>

ParseDateCall ==
    /\ call = NoCall
    /\ \E imp \in {"harvard", "huntington", "ucla", "lambeth"} :
       \E q \in DateStrings :
          call' = [fn |-> "parse_date", imp |-> imp, in |-> q,
                   out |-> parse_date(imp, q),
                   record |-> record_dates(imp, parse_date(imp, q))]
    /\ UNCHANGED <<persistent, source, process, history>>

\* The label and the value of a metadata entry, as IIIF manifests give them:
\* a bare string, an object {"@value": s}, a list with one string, a list
\* with one such object.
Shapes == {"str", "obj", "list_str", "list_obj"}
Values == {"x", "<b>x</b>"}
None == "None"

\* str({"@value": s})
Repr(v) == IF v = "x" THEN "{'@value': 'x'}" ELSE "{'@value': '<b>x</b>'}"

\* re.sub(r"<[^>]+>", " ", ...); re.sub(r"\s+", " ", ...).strip()
StripTags(v) ==
    IF v = "<b>x</b>" THEN "x"
    ELSE IF v = "{'@value': '<b>x</b>'}" THEN "{'@value': ' x '}"
    ELSE v

\* does the entry label, given in this shape, equal the label asked for:
\* cambridge.py unwraps an object and compares a list with the string
LabelMatches(imp, lshape) ==
    IF imp = "cambridge" THEN lshape \in {"str", "obj"} ELSE TRUE

\* extract_metadata_value(metadata, label) on the one entry whose label is
\* the label asked for, with the value v
extract_metadata_value(imp, lshape, vshape, v) ==
    IF ~LabelMatches(imp, lshape) THEN None
    ELSE IF vshape = "list_obj" /\ imp = "cambridge"
    THEN StripTags(Repr(v))          \* "; ".join(str(v) for v in value)
    ELSE IF vshape = "list_obj" /\ imp = "nls"
    THEN v                           \* return v.get("@value", str(v))
    ELSE StripTags(v)

ExtractMetadataCall ==
    /\ call = NoCall
    /\ \E imp \in {"harvard", "cambridge", "nls"} :
       \E lshape \in Shapes, vshape \in Shapes, v \in Values :
          call' = [fn |-> "extract_metadata_value", imp |-> imp,
                   in |-> [label |-> lshape, shape |-> vshape, value |-> v],
                   out |-> extract_metadata_value(imp, lshape, vshape, v)]
    /\ UNCHANGED <<persistent, source, process, history>>

\* The collection classifiers.  An identifier is a list of words separated
\* by blanks, for bodleian.py with or without the prefix "MS. "; a rule of a
\* table names the word the (cleaned) identifier begins with and what has to
\* follow it; a collection name is a list of words as well.
Words == {"Rawl.", "poet.", "liturg.", "D.", "Bodl.", "Arch.", "12",
          "MS", "Lat", "Belt"}
Identifiers ==
    [ms : BOOLEAN,
     words : {<<>>} \cup {<<w>> : w \in Words}
                 \cup {<<w, x>> : w \in Words, x \in Words}]

\* the first character of a word
FirstChar(w) ==
    CASE w \in {"Rawl."} -> "R"  [] w = "poet." -> "p"  [] w = "liturg." -> "l"
      [] w = "D." -> "D"  [] w = "Bodl." -> "B"  [] w = "Arch." -> "A"
      [] w = "12" -> "1"  [] w = "MS" -> "M"  [] w = "Lat" -> "L"
      [] w = "Belt" -> "B"
\* [A-Z] under re.IGNORECASE
IsLetter(ch) == ch # "1"
\* parts[0].rstrip('.')
RStripDot(w) ==
    CASE w = "Rawl." -> "Rawl"  [] w = "poet." -> "poet"
      [] w = "liturg." -> "liturg"  [] w = "D." -> "D"  [] w = "Bodl." -> "Bodl"
      [] w = "Arch." -> "Arch"  [] OTHER -> w

Rule(head, next, collection) ==
    [head |-> head, next |-> next, collection |-> collection]
Group == "\\1"

\* bodleian.py extract_collection_from_shelfmark: "patterns", in its order
BodleianPatterns ==
    << Rule("Bodl.", "any", <<"Bodley">>),
       Rule("Junius", "any", <<"Junius">>),
       Rule("Ashmole", "any", <<"Ashmole">>),
       Rule("Digby", "any", <<"Digby">>),
       Rule("Douce", "any", <<"Douce">>),
       Rule("Laud", "Misc.", <<"Laud", "Misc.">>),
       Rule("Laud", "Lat.", <<"Laud", "Lat.">>),
       Rule("Rawl.", "letter", <<"Rawlinson", Group>>),
       Rule("Rawl.", "poet.", <<"Rawlinson", "Poet.">>),
       Rule("Rawl.", "liturg.", <<"Rawlinson", "Liturg.">>),
       Rule("Add.", "letter", <<"Additional", Group>>),
       Rule("Auct.", "any", <<"Auct.">>),
       Rule("Fairfax", "any", <<"Fairfax">>),
       Rule("Hatton", "any", <<"Hatton">>),
       Rule("Tanner", "any", <<"Tanner">>) >>

\* re.match(pattern, s, re.IGNORECASE)
Matches(rule, s) ==
    /\ s # <<>> /\ s[1] = rule.head
    /\ \/ rule.next = "any"
       \/ /\ Len(s) >= 2
          /\ IF rule.next = "letter" THEN IsLetter(FirstChar(s[2]))
             ELSE s[2] = rule.next

RECURSIVE FirstMatch(_, _, _)
\* "for pattern, collection in patterns: if re.match(...): return ..."
FirstMatch(patterns, k, s) ==
    IF k > Len(patterns) THEN 0
    ELSE IF Matches(patterns[k], s) THEN k
    ELSE FirstMatch(patterns, k + 1, s)

extract_collection_from_shelfmark(shelfmark) ==
    LET s == shelfmark.words            \* re.sub(r'^MS\.\s*', '', shelfmark)
        k == FirstMatch(BodleianPatterns, 1, s)
        collection == BodleianPatterns[k].collection
    IN  IF k # 0
        THEN [j \in 1..Len(collection) |->
                 IF collection[j] = Group THEN FirstChar(s[2])
                 ELSE collection[j]]
        ELSE IF s # <<>> THEN <<RStripDot(s[1])>>     \* "use first word"
        ELSE <<"Unknown">>

\* ucla.py extract_collection: the rules are searched anywhere in the
\* upper-cased identifier; of the table only 'BELT' can match these words
extract_collection(shelfmark) ==
    IF \E k \in 1..Len(shelfmark.words) : shelfmark.words[k] = "Belt"
    THEN <<"Belt">>
    ELSE <<"Other">>

\* harvard.py get_collection_from_shelfmark over COLLECTION_MAPPING: of the
\* table only r'^MS Lat' can match these words
get_collection_from_shelfmark(shelfmark) ==
    IF Len(shelfmark.words) >= 2 /\ shelfmark.words[1] = "MS"
           /\ shelfmark.words[2] = "Lat"
    THEN <<"Latin">>
    ELSE <<"Manuscripts">>

classify(imp, shelfmark) ==
    IF imp = "bodleian" THEN extract_collection_from_shelfmark(shelfmark)
    ELSE IF imp = "ucla" THEN extract_collection(shelfmark)
    ELSE get_collection_from_shelfmark(shelfmark)

\* does a rule of the importer's table match the identifier
RuleMatches(imp, shelfmark) ==
    IF imp = "bodleian" THEN FirstMatch(BodleianPatterns, 1, shelfmark.words) # 0
    ELSE IF imp = "ucla" THEN extract_collection(shelfmark) # <<"Other">>
    ELSE get_collection_from_shelfmark(shelfmark) # <<"Manuscripts">>

ClassifyCall ==
    /\ call = NoCall
    /\ \E imp \in {"bodleian", "ucla", "harvard"}, sm \in Identifiers :
          /\ sm.ms => imp = "bodleian"
          /\ call' = [fn |-> "classify", imp |-> imp, in |-> sm,
                      out |-> classify(imp, sm)]
    /\ UNCHANGED <<persistent, source, process, history>>

InitBuild ==
    /\ Init /\ dbState = "ok"
    /\ catalogue = [up |-> FALSE, list |-> <<>>]

NextBuild ==
    \/ FetchCall
    \/ ContentsCall
    \/ ParseDateCall
    \/ ExtractMetadataCall
    \/ ClassifyCall

SpecBuild == InitBuild /\ [][NextBuild]_vars

\* ------------------------------------------------- collection-tree crawl
\* durham.py: crawl_collection walks a tree of IIIF Collection documents,
\* fetch_all_manifests crawls each target collection and deduplicates.
\* The recursion is unfolded into steps: call.stack holds the calls of
\* crawl_collection that are still to be made, the next one first.
MaxDepth == 5         \* crawl_collection(url, depth=0, max_depth=5)
DepthArgs == {0, 1, MaxDepth}
Collections == Ids    \* URLs of collection documents

Entry(id, type) == [id |-> id, type |-> type]
SubLists ==
    LET E == {Entry(c, "sc:Collection") : c \in Collections}
                \cup {Entry(1, "other")}
    IN  {<<>>} \cup {<<e>> : e \in E} \cup {<<e, f>> : e \in E, f \in E}
ManifestLists ==
    {<<>>, <<Entry(1, "sc:Manifest")>>,
     <<Entry(2, "other"), Entry(1, "sc:Manifest")>>}

\* what fetch_json returns for a collection URL: the document, None, or an
\* exception it does not catch
NoDoc(kind) == [kind |-> kind, manifests |-> <<>>, collections |-> <<>>]
Docs ==
    {NoDoc("None"), NoDoc("raise")}
        \cup {[kind |-> "ok", manifests |-> m, collections |-> c] :
                 m \in ManifestLists, c \in SubLists}

Frame(url, depth) == [url |-> url, depth |-> depth]

\* "if depth > max_depth: return []"
TooDeep_late(depth, max_depth) == depth > max_depth + 1
TooDeep(depth, max_depth) == depth > max_depth

\* "if m.get('@type') == 'sc:Manifest'" / "if c.get('@type') == 'sc:Collection'"
OfType(list, type) == SelectSeq(list, LAMBDA e : e.type = type)
EntryIds(list) == [k \in 1..Len(list) |-> list[k].id]

\* one call of crawl_collection, up to its first recursive call
crawl_collection(c) ==
    LET f == Head(c.stack)
        rest == Tail(c.stack)
        data == c.docs[f.url]
        got == [c EXCEPT !.fetched = Append(@, f)]
        subs == EntryIds(OfType(data.collections, "sc:Collection"))
        calls == [k \in 1..Len(subs) |-> Frame(subs[k], f.depth + 1)]
        n == IF TooDeep(f.depth, c.max_depth)
                 THEN [c EXCEPT !.stack = rest, !.cut = TRUE]
             ELSE IF data.kind = "raise"
                 THEN [got EXCEPT !.stack = <<>>, !.ret = "raise"]
             ELSE IF data.kind = "None"
                 THEN [got EXCEPT !.stack = rest]
             ELSE [got EXCEPT
                     !.result = @ \o EntryIds(OfType(data.manifests,
                                                     "sc:Manifest")),
                     !.stack = calls \o rest]
    IN  IF n.stack = <<>> /\ n.ret = "running"
        THEN [n EXCEPT !.ret = "return", !.out = Dedup(n.result, {})]
        ELSE n

\* fetch_all_manifests: "for collection_url in TARGET_COLLECTIONS"
CrawlCall ==
    /\ call = NoCall
    /\ \E docs \in [Collections -> Docs], d \in DepthArgs,
          targets \in {<<1>>, <<1, 2>>} :
          call' = [fn |-> "crawl_collection", docs |-> docs, max_depth |-> d,
                   stack |-> [k \in 1..Len(targets) |-> Frame(targets[k], 0)],
                   fetched |-> <<>>, result |-> <<>>, cut |-> FALSE,
                   ret |-> "running", out |-> <<>>]
    /\ UNCHANGED <<persistent, source, process, history>>

CrawlStep ==
    /\ call.fn = "crawl_collection" /\ call.ret = "running"
    /\ call' = crawl_collection(call)
    /\ UNCHANGED <<persistent, source, process, history>>

InitCrawl == InitBuild

NextCrawl ==
    \/ CrawlCall
    \/ CrawlStep

\* the interpreter runs the crawl to its end: every step that can be taken
\* is taken
SpecCrawl == InitCrawl /\ [][NextCrawl]_vars /\ WF_vars(NextCrawl)

\* ------------------------------------------ page loops against any server
\* trinity_cambridge.py TrinityScraper.discover_manuscripts and nlw.py
\* discover_manuscripts, one action per turn of "while True", against a
\* server that answers each page request as it likes. page_num and
\* len(all_items) are counted up to a bound and stay there, and of page_num
\* its parity is kept as well: the loops read page_num only for the URL and
\* the log line.
MaxPageNum == 3       \* page numbers that are told apart
MaxPerPage == 2       \* result elements on one page
Limits == {0, 2}      \* --limit (0: not given)
ItemCap == NlwTestBrowse + MaxPerPage

UpTo(n, cap) == IF n < cap THEN n ELSE cap

\* what one page shows: its result elements and its 'Next' control
TrinityPages == [results : 0..MaxPerPage,
                 next : {"none", "disabled", "enabled"}]
\* (nlw.py skips an article that has no link)
NlwPages == {p \in [results : 0..MaxPerPage, links : 0..MaxPerPage,
                    next : {"none", "enabled"}] : p.links <= p.results}

\* one turn of the loop of TrinityScraper.discover_manuscripts
trinity_turn(c, page) ==
    LET got == [c EXCEPT !.count = UpTo(@ + page.results, ItemCap)]
        stop == [got EXCEPT !.ret = "return"]
    IN  IF page.results = 0 THEN [stop EXCEPT !.count = c.count]
        ELSE IF c.test_mode THEN stop
        ELSE IF page.next = "none" THEN stop
        ELSE IF page.next = "disabled" THEN stop
        ELSE [got EXCEPT !.page_num = UpTo(@ + 1, MaxPageNum), !.odd = ~@]

\* one turn of the browse loop of nlw.py discover_manuscripts
nlw_turn(c, page) ==
    LET max_browse_items == IF c.test_mode THEN NlwTestBrowse ELSE c.limit
        got == [c EXCEPT !.count = UpTo(@ + page.links, ItemCap)]
        stop == [got EXCEPT !.ret = "return"]
    IN  IF page.results = 0 THEN stop
        ELSE IF max_browse_items # 0 /\ got.count >= max_browse_items
            THEN stop
        ELSE IF page.next = "none" THEN stop
        ELSE [got EXCEPT !.page_num = UpTo(@ + 1, MaxPageNum), !.odd = ~@]

DiscoverCall ==
    /\ call = NoCall
    /\ \E imp \in {"TCC", "NLW"}, t \in BOOLEAN, l \in Limits :
          /\ imp = "TCC" => l = 0
          /\ call' = [fn |-> "discover_manuscripts", imp |-> imp,
                      test_mode |-> t, limit |-> l, page_num |-> 1,
                      odd |-> TRUE, count |-> 0, ret |-> "running"]
    /\ UNCHANGED <<persistent, source, process, history>>

TrinityPage ==
    /\ call.fn = "discover_manuscripts" /\ call.ret = "running"
    /\ call.imp = "TCC"
    /\ \E page \in TrinityPages : call' = trinity_turn(call, page)
    /\ UNCHANGED <<persistent, source, process, history>>

NlwPage ==
    /\ call.fn = "discover_manuscripts" /\ call.ret = "running"
    /\ call.imp = "NLW"
    /\ \E page \in NlwPages : call' = nlw_turn(call, page)
    /\ UNCHANGED <<persistent, source, process, history>>

InitPaging == InitBuild

NextPaging ==
    \/ DiscoverCall
    \/ TrinityPage
    \/ NlwPage

\* the loop keeps running while it has a turn to take; nothing is assumed
\* about what the server answers
SpecPaging == InitPaging /\ [][NextPaging]_vars /\ WF_vars(NextPaging)

\* ===================================================================== claims
Ended == pc = "idle" /\ lastExit \in {"0", "1"}
CheckpointOnDisk == progressFile[cfg.imp]
Phase2Over == pc = "p2_loop" /\ i > Len(items)
ResumedAfterInterrupt == intr.at = "p2_loop"
ExecTally == IF cfg.dry_run THEN shadow ELSE tally
DryTally == IF cfg.dry_run THEN tally ELSE shadow

\* C1: after any sequence of importer runs the manuscripts table holds at
\* most one row for every (shelfmark, repository_id) pair.
C1_UpsertKeyUnique ==
    \A r1 \in manuscripts : \A r2 \in manuscripts :
        (r1.shelfmark = r2.shelfmark /\ r1.repository_id = r2.repository_id)
            => r1 = r2

\* witness C1: a second run has upserted a batch in which two records carry
\* the same shelfmark.
C1_Witness ==
    /\ Ended /\ runs = 2 /\ lastExit = "0" /\ ~cfg.dry_run
    /\ Len(records) = 2 /\ records[1].shelfmark = records[2].shelfmark
    /\ manuscripts # {}

\* C2: a second --execute run of the same importer with the same command
\* line against the unchanged source performs zero inserts and leaves every
\* row as it was.
C2_Idempotent ==
    (Ended /\ lastExit = "0" /\ repeat /\ ~cfg.dry_run)
        => /\ stats.inserted = 0
           /\ manuscripts = startM
           /\ repositories = startR

\* C3 as stated (here for --execute runs): a run resumed after an
\* interruption behind item N processes exactly the items N+1..end, each
\* once, and none of the items 1..N.
C3_ResumeProcessesOnlyRest ==
    (ResumedAfterInterrupt /\ Phase2Over /\ ~cfg.dry_run)
        => procSeq = SubSeq(intr.items, intr.n + 1, Len(intr.items))

\* C3 amended: the resumed run processes an item as often as the list holds
\* it when its id is not in the checkpoint's completed_ids (the items
\* N+1..end and the failed items of 1..N), and never when it is.
C3_ResumeSkipsCompleted ==
    (ResumedAfterInterrupt /\ Phase2Over)
        => \A x \in Ids :
              Count(procSeq, x) =
                  IF x \in load_progress(intr.file).completed THEN 0
                  ELSE Count(intr.items, x)

\* witness C3: the interrupted run had completed an item and left one, and
\* the resumed run has processed what was left.
C3_Witness ==
    /\ ResumedAfterInterrupt /\ Phase2Over
    /\ intr.n >= 1 /\ intr.n < Len(intr.items)
    /\ load_progress(intr.file).completed # {}
    /\ procSeq # <<>>

\* C4: each record that the --execute pass inserts (updates) is tallied as
\* would-insert (would-update) by the dry-run pass over the same tables and
\* the same batch.
C4_DryRunPredictsExecute ==
    (Ended /\ lastExit = "0" /\ cfg.imp = "Harvard")
        => \A k \in 1..Len(tally) :
              ExecTally[k] # "error" => DryTally[k] = ExecTally[k]

\* C5: a dry-run leaves the manuscripts and the repositories table as they
\* were before the run.
C5_DryRunWritesNothing ==
    (runs > 0 /\ cfg.dry_run)
        => manuscripts = startM /\ repositories = startR

\* witness C5: a Trinity dry-run, which calls ensure_repository on a database
\* without its repository row, has tallied a would-insert and ended.
C5_Witness ==
    /\ Ended /\ lastExit = "0" /\ cfg.dry_run /\ cfg.imp = "TCC"
    /\ stats.inserted > 0
    /\ \A r \in repositories : r.short_name # "TCC"

\* C6: a kill at any instant of an --execute run leaves a checkpoint file
\* that is readable and lacks at most the one in-flight item.
C6_KillLeavesCheckpoint ==
    (pc = "idle" /\ lastExit = "killed" /\ ~cfg.dry_run)
        => /\ CheckpointOnDisk.st # "corrupt"
           /\ Cardinality(Range(intr.proc) \
                    (load_progress(CheckpointOnDisk).completed \cup
                     load_progress(CheckpointOnDisk).failed)) <= 1

\* C7: after Ctrl-C in Phase 2 the checkpoint on disk is the checkpoint that
\* was held in memory at that moment.
C7_SigintFlushesCheckpoint ==
    (pc = "idle" /\ lastExit = "sigint")
        => /\ CheckpointOnDisk.st # "corrupt"
           /\ load_progress(CheckpointOnDisk).completed = intr.mem.completed
           /\ load_progress(CheckpointOnDisk).failed = intr.mem.failed

\* C8: with the database file absent, or --skip-discovery and no discovery
\* cache, the run exits 1 without a network request and without writing a
\* cache or checkpoint file.
C8_PreconditionFailsFirst ==
    (/\ Ended /\ runs > 0 /\ ~cfg.discover_only
     /\ (startDb = "absent" \/ (cfg.skip_discovery /\ ~startCache)))
        => lastExit = "1" /\ ~net /\ ~wrote

\* C9: when discovery fails or yields nothing, no item is processed and the
\* exit code is non-zero.
C9_DiscoveryFailureIsFatal ==
    (Ended /\ discovered \in {"failed", "empty"})
        => procSeq = <<>> /\ lastExit = "1"

\* C10: in --execute mode a row write that raises is counted in the run
\* statistics and every remaining item of the batch is still processed.
C10_DbErrorDoesNotAbort ==
    (Ended /\ ~cfg.dry_run /\ raised > 0)
        => /\ stats.db_errors = raised
           /\ Len(procSeq) = Len(items)

\* the fetch of the k-th processed item returned nothing
FetchFailedAt(k) ==
    IF cfg.imp = "TCC" THEN k \in DOMAIN tally /\ tally[k] = "failed"
    ELSE manifest[procSeq[k]].kind = "fail"

\* C11: when a run has ended, every item whose manifest fetch failed is in
\* the failed_ids of the checkpoint file, and the item behind it in the list
\* was processed.
C11_FetchFailureRecorded ==
    (Ended /\ runs > 0)
        => \A k \in 1..Len(procSeq) :
              FetchFailedAt(k)
                  => /\ procSeq[k] \in load_progress(CheckpointOnDisk).failed
                     /\ (k < Len(items) => Len(procSeq) > k)

\* the counts of the summary that the run prints when it reaches its end
SummaryPrinted == Ended /\ lastExit = "0"
SummaryTotal == stats.inserted + stats.updated + stats.db_errors
                    + stats.fetch_errors + stats.skipped

\* the k-th processed item is a row that this run wrote
RowWrittenFor(k) ==
    \E r \in manuscripts \ startM :
        r.shelfmark = (IF cfg.imp = "TCC" THEN procSeq[k]
                       ELSE harvard_parse_manifest(manifest[procSeq[k]],
                                                   procSeq[k]).shelfmark)

\* C12 (runs against a database that has its tables): when a run that
\* processed items has ended, either it printed the summary and the counts
\* of the summary add up to the number of processed items, or every
\* processed item is a row written by the run or is in failed_ids.
C12_EveryItemAccounted ==
    (Ended /\ runs > 0 /\ procSeq # <<>> /\ startDb = "ok")
        => IF SummaryPrinted THEN SummaryTotal = Len(procSeq)
           ELSE \A k \in 1..Len(procSeq) :
                   \/ RowWrittenFor(k)
                   \/ procSeq[k] \in load_progress(CheckpointOnDisk).failed

\* the record that the k-th processed item's manifest gives
RecordAt(k) ==
    IF cfg.imp = "TCC"
    THEN trinity_parse_manifest(manifest[procSeq[k]], procSeq[k])
    ELSE harvard_parse_manifest(manifest[procSeq[k]], procSeq[k])

\* the upsert of the k-th processed item found a row for its key: the row
\* was there when the run started or an earlier item of the run wrote it
FoundExisting(k) ==
    \/ \E r \in startM : r.shelfmark = RecordAt(k).shelfmark
                           /\ r.repository_id = repo_id
    \/ \E j \in 1..(k - 1) : /\ manifest[procSeq[j]].kind = "ok"
                             /\ ~RecordAt(j).bad
                             /\ RecordAt(j).shelfmark = RecordAt(k).shelfmark

C14_RepositoryCreatedOnce ==
    [][/\ repositories \subseteq repositories'
       /\ \A r1 \in repositories' : \A r2 \in repositories' :
             r1.short_name = r2.short_name => r1 = r2]_vars

\* witness C14: an --execute run of an importer whose repository row was
\* there when the run started has called ensure_repository, upserted and
\* ended.
C14_Witness ==
    /\ Ended /\ lastExit = "0" /\ ~cfg.dry_run
    /\ \E r \in startR : r.short_name = cfg.imp
    /\ stats.updated + stats.skipped > 0
    /\ repositories = startR

\* the head of the Phase 2 loop before its first iteration; the in-memory
\* checkpoint is the one that the run loaded
Phase2Start == pc = "p2_loop" /\ i = 1 /\ procSeq = <<>>

\* C15: at the start of Phase 2 of a --resume run the list to process holds
\* no id of completed_ids, holds every other id as often as the list after
\* the limit holds it (the ids of failed_ids among them), and keeps the
\* order of that list.
C15_ResumeFiltersCompleted ==
    (Phase2Start /\ cfg.resume)
        => /\ \A x \in Ids :
                Count(items, x) = IF x \in progress.completed THEN 0
                                  ELSE Count(allItems, x)
           /\ \A p \in 1..Len(items) : \A q \in (p + 1)..Len(items) :
                \E p2 \in 1..Len(allItems) : \E q2 \in (p2 + 1)..Len(allItems) :
                    allItems[p2] = items[p] /\ allItems[q2] = items[q]

\* witness C15: a --resume run starts Phase 2 with a checkpoint that holds a
\* completed and a failed id; the failed id is in the list to process.
C15_Witness ==
    /\ Phase2Start /\ cfg.resume
    /\ \E x \in progress.completed : Count(allItems, x) > 0
    /\ \E x \in progress.failed : Count(items, x) > 0

\* C16: from the call of mark_completed(id) on, the in-memory checkpoint
\* holds id in completed_ids and not in failed_ids, and so does the file
\* once save_progress has written it.
C16_MarkCompletedClearsFailed ==
    (tally = <<"completed">> /\ procSeq # <<>>)
        => /\ procSeq[1] \in progress.completed
           /\ procSeq[1] \notin progress.failed
           /\ pc = "p2_loop"
                => /\ procSeq[1] \in load_progress(CheckpointOnDisk).completed
                   /\ procSeq[1] \notin load_progress(CheckpointOnDisk).failed

\* witness C16: mark_completed was called with an id that the checkpoint
\* file, not yet rewritten, still lists as failed.
C16_Witness ==
    /\ tally = <<"completed">> /\ procSeq # <<>> /\ pc = "save_open"
    /\ procSeq[1] \in load_progress(CheckpointOnDisk).failed

\* the cache file of the importer of the current run
CacheOnDisk == cacheFile[cfg.imp]

\* C17: a run with --skip-discovery that found a discovery cache with stubs
\* (and a database, and was not --discover-only) makes no discovery request, does
\* not exit with 1 before Phase 2, and hands Phase 2 stubs of the cache: all
\* of them when no limit is given.
C17_SkipDiscoveryUsesCache ==
    (/\ runs > 0 /\ cfg.skip_discovery /\ startCache
     /\ CacheOnDisk.items # <<>>
     /\ ~cfg.discover_only /\ startDb = "ok")
        => /\ lastExit # "1"
           /\ ~net /\ discovered = "notrun"
           /\ Range(allItems) \subseteq Range(CacheOnDisk.items)
           /\ (cfg.limit = 0 /\ ~cfg.test_mode) => allItems = CacheOnDisk.items

\* the most items a --test run is to process: five in harvard.py and nlw.py,
\* the first result page in trinity_cambridge.py
TestBound == IF cfg.imp = "TCC" THEN PageSize ELSE TestItems

\* C18: the list handed to Phase 2 holds at most N items in a run with
\* --limit N and at most the test bound in a run with --test.
C18_LimitBoundsPhase2 ==
    (runs > 0)
        => /\ (cfg.limit # 0 /\ ~cfg.test_mode) => Len(items) <= cfg.limit
           /\ cfg.test_mode => Len(items) <= TestBound

\* what the discovery of the current importer enumerates when it is run to
\* its end, without --test and without --limit
FullStubList ==
    IF cfg.imp = "Harvard" THEN discover_from_biblissima(catalogue.list, FALSE, 0)
    ELSE IF cfg.imp = "TCC" THEN discover_manuscripts(catalogue.list, 1, FALSE)
    ELSE nlw_discover_manuscripts(catalogue.list, FALSE, 0)

\* C19: after a run whose discovery found stubs, the cache file holds the
\* full list of stubs of the catalogue, whatever --test or --limit were.
C19_CacheHoldsFullList ==
    (runs > 0 /\ discovered = "ok")
        => CacheOnDisk.exists /\ CacheOnDisk.items = FullStubList

\* C20: the stub list that a discovery run produced (and cached) holds no
\* id twice.
C20_DiscoveryDeduplicates ==
    (runs > 0 /\ discovered = "ok")
        => \A x \in Ids : Count(CacheOnDisk.items, x) <= 1

\* ------------------------------------------------------------------- C21
FirstOk(outs, n) ==
    IF \E k \in 1..n : outs[k] = "ok"
    THEN MinOf({k \in 1..n : outs[k] = "ok"}) ELSE 0

\* C21: fetch makes at most the configured number of attempts; when every
\* attempt fails with a timeout, a connection error or a non-200 status it
\* returns None after exactly that many attempts, and when an attempt
\* succeeds it returns the body without a further attempt.
C21_FetchAttemptsBounded ==
    call.fn = "fetch" =>
        LET n == Attempts(call.imp)
            k == FirstOk(call.in, n)
        IN  /\ call.out.attempts <= n
            /\ k = 0 => call.out = [ret |-> "None", attempts |-> n]
            /\ k # 0 => call.out = [ret |-> "body", attempts |-> k]

\* ------------------------------------------------------------------- C22
\* C22: between any two consecutive manifest fetches of a run the fixed
\* inter-request delay elapses, also when the first of the two failed.
C22_DelayBetweenFetches == ~pace.hasty

\* ------------------------------------------------------------------- C23
\* neither the manifest nor the stub of the k-th processed item yields a
\* shelfmark: the Harvard stub carries the DRS id, title and date of the
\* search result (the Trinity stub is the shelfmark itself)
NoShelfmark(k) ==
    /\ cfg.imp = "Harvard"
    /\ manifest[procSeq[k]].kind = "ok" /\ manifest[procSeq[k]].sm = 0

\* C23: for an item that has no shelfmark in its manifest or its stub the
\* record builder returns None (no record of the batch carries a shelfmark
\* that no manifest gave) and the run writes no row for the item.
C23_NoShelfmarkNoRow ==
    runs > 0
        => /\ \A k \in 1..Len(records) : records[k].shelfmark \in Ids
           /\ \A k \in 1..Len(procSeq) : NoShelfmark(k) => ~RowWrittenFor(k)

\* ------------------------------------------------------------------- C24
\* the length of the source text that the contents of the record came from
SourceLen ==
    IF call.imp # "harvard" \/ call.in.label = 0 THEN
        (IF call.imp # "harvard" \/ call.in.title # 0
         THEN call.in.title ELSE call.in.stub)
    ELSE call.in.label

\* C24: the contents of every built record has at most 1000 characters, and
\* ends with the ellipsis marker whenever its source text had more.
C24_ContentsTruncated ==
    call.fn = "contents" =>
        /\ call.out.len <= ContentsLimit
        /\ SourceLen > ContentsLimit => call.out.dots

\* ------------------------------------------------------------------- C25
\* C25: a record with both date_start and date_end has date_start <=
\* date_end, whatever the date string.
C25_DateStartBeforeEnd ==
    (call.fn = "parse_date" /\ call.record[1] # NoYear /\ call.record[2] # NoYear)
        => call.record[1] <= call.record[2]

\* ------------------------------------------------------------------- C26
\* C26: for every century N from 1 to 20, written as an ordinal or as a
\* Roman numeral, parse_date / parse_date_range returns
\* ((N-1)*100, N*100 - 1).
C26_CenturyToYears ==
    (call.fn = "parse_date" /\ call.imp \in {"harvard", "ucla"})
        => \A c \in Centuries :
              call.in \in {<<Ordinal(c)>>, <<Roman(c)>>}
                  => call.out = <<(c - 1) * 100, c * 100 - 1>>

\* ------------------------------------------------------------------- C27
\* C27: parse_date("ca. 1420") returns (1420 - t, 1420 + t) for a t > 0.
C27_CircaWidens ==
    (/\ call.fn = "parse_date"
     /\ call.imp \in {"harvard", "huntington", "ucla"}
     /\ call.in = <<Ca, Year(1420)>>)
        => \E t \in 1..100 : call.out = <<1420 - t, 1420 + t>>

\* ------------------------------------------------------------------- C28
\* C28: extract_metadata_value returns for a label and a value given in any
\* of the shapes what it returns for them given as bare strings.
C28_ShapeIndependent ==
    call.fn = "extract_metadata_value"
        => call.out = extract_metadata_value(call.imp, "str", "str",
                                             call.in.value)

\* ------------------------------------------------------------------- C29
\* the committed table holds the row of the item with this id
RowCommittedFor(id) ==
    \E r \in manuscripts :
        r.shelfmark = (IF cfg.imp = "TCC" THEN id
                       ELSE harvard_parse_manifest(manifest[id], id).shelfmark)

\* C29: at every instant of an --execute run (here: the first run against
\* the database and the checkpoint file), every id that the checkpoint file
\* lists as completed has its row committed in the manuscripts table.
C29_CompletedMeansCommitted ==
    (runs = 1 /\ ~cfg.dry_run)
        => \A id \in load_progress(CheckpointOnDisk).completed :
              RowCommittedFor(id)

\* ------------------------------------------------------------------- C30
\* a --resume --execute run, started after an --execute run of the same
\* importer was killed, has finished
ResumedRunFinished ==
    /\ Ended /\ lastExit = "0"
    /\ cfg.resume /\ ~cfg.dry_run /\ intr.code = "killed"

\* C30: when a killed --execute run is followed by a --resume --execute run
\* that finishes, every item whose manifest was fetched and parsed in
\* either of the two runs (and whose row write does not raise) has a row.
C30_KillResumeCompletes ==
    ResumedRunFinished
        => \A id \in Range(intr.proc) \cup Range(procSeq) :
              (manifest[id].kind = "ok" /\ ~manifest[id].bad)
                  => RowCommittedFor(id)

\* ------------------------------------------------------------------- C31
\* the step that starts a --resume --execute run of the importer whose only
\* earlier run was a dry-run that finished with exit code 0
ResumeAfterDryRun ==
    /\ runs = 1 /\ cfg.dry_run /\ lastExit = "0"
    /\ runs' = 2 /\ cfg'.imp = cfg.imp /\ cfg'.resume /\ ~cfg'.dry_run
    /\ pc' = "p2_loop"

\* C31: a --resume --execute run that follows a dry-run processes every item
\* of its list that has no row in the database: the dry-run has removed
\* none of them from items_to_process.
C31_DryRunKeepsResumeItems ==
    [][ResumeAfterDryRun
           => \A id \in Range(allItems') :
                 ~RowCommittedFor(id) => id \in Range(items')]_vars

\* ------------------------------------------------------------------- C32
Crawling == call.fn = "crawl_collection"
CrawlOver == Crawling /\ call.ret # "running"

\* C32: the crawl never fetches a collection document at a depth greater
\* than max_depth, and every crawl comes to its end (it returns, or an
\* exception of a fetch ends it), whatever the documents reference.
C32_CrawlBoundedAndTerminates ==
    /\ [](Crawling => \A f \in Range(call.fetched) :
                         f.depth <= call.max_depth)
    /\ <>CrawlOver

\* a crawl has returned after it fetched the same collection at two depths,
\* reached depth max_depth and had a deeper call cut off
C32_Witness ==
    /\ Crawling /\ call.ret = "return" /\ call.cut
    /\ \E f \in Range(call.fetched), g \in Range(call.fetched) :
          /\ f.url = g.url /\ f.depth < g.depth
          /\ g.depth = call.max_depth

\* ------------------------------------------------------------------- C33
Discovering == call.fn = "discover_manuscripts"

\* C33: every page loop of a discovery comes to its end, whatever the
\* server answers to the page requests.
C33_PaginationStops == <>(Discovering /\ call.ret = "return")

\* ------------------------------------------------------------------- C34
\* rows of the manuscripts table that one step commits
RowsCommitted == Cardinality(manuscripts' \ manuscripts)

\* C34: in an --execute run that processes more than one item, no single
\* commit carries the row writes of the whole list: the transaction is
\* committed after each item (or after a part of the list).
C34_CommitPerItem ==
    [][(pc = "p2_loop" /\ ~cfg.dry_run /\ Len(items) > 1)
           => RowsCommitted < Len(items)]_vars

\* ------------------------------------------------------------------- C35
\* C35: no id is in completed_ids and in failed_ids at once, in memory or
\* in the checkpoint file, after any calls of mark_completed and mark_failed
\* on a checkpoint that was empty at first.
C35_CompletedFailedDisjoint ==
    /\ progress.completed \cap progress.failed = {}
    /\ LET file == load_progress(CheckpointOnDisk)
       IN  file.completed \cap file.failed = {}

\* ------------------------------------------------------------------- C36
\* C36: in a run started without --resume, once the run has written the
\* checkpoint file, the completed and failed lists on disk contain only ids
\* that this run has processed.
C36_FreshRunOwnsCheckpoint ==
    (runs >= 1 /\ ~cfg.resume /\ wrote)
        => LET file == load_progress(CheckpointOnDisk)
           IN  file.completed \cup file.failed \subseteq Range(procSeq)

\* a second run of harvard.py, without --resume, has written the checkpoint
\* of its first item; item 2, whose row the first run committed (and which
\* that run had listed as completed), is no longer in the file
C36_Witness ==
    /\ runs = 2 /\ ~cfg.resume /\ wrote /\ cfg.imp = "Harvard"
    /\ pc = "p2_loop" /\ procSeq = <<1>>
    /\ load_progress(CheckpointOnDisk).completed = {1}
    /\ RowCommittedFor(2)

\* ------------------------------------------------------------------- C37
\* the date string has exactly one 4-digit year and no circa marker
OneYearNoCirca(q) ==
    /\ Len(SelectSeq(q, IsYear)) = 1
    /\ \A k \in 1..Len(q) : q[k] # Ca

\* C37: for a date string with exactly one 4-digit year and no circa
\* marker, parse_date of harvard.py returns (year, year).
C37_SingleYear ==
    (call.fn = "parse_date" /\ call.imp = "harvard" /\ OneYearNoCirca(call.in))
        => LET year == SelectSeq(call.in, IsYear)[1].n
           IN  call.out = <<year, year>>

\* ------------------------------------------------------------------- C38
Classified == call.fn = "classify"

\* C38: when no rule of the importer's table matches the identifier, the
\* classifier returns the first blank-delimited word of the cleaned
\* identifier, or "Unknown" when the identifier has no word.
C38_ClassifierFallback ==
    (Classified /\ ~RuleMatches(call.imp, call.in))
        => call.out = IF call.in.words = <<>> THEN <<"Unknown">>
                      ELSE <<call.in.words[1]>>

\* ------------------------------------------------------------------- C39
\* the cleaned identifier begins with the two words
BeginsWith(sm, w, x) == Len(sm.words) >= 2 /\ sm.words[1] = w /\ sm.words[2] = x

\* C39: the Bodleian classifier maps a shelfmark that begins with
\* "Rawl. poet" to "Rawlinson Poet." and one that begins with
\* "Rawl. liturg" to "Rawlinson Liturg.".
C39_RawlinsonPoetLiturg ==
    (Classified /\ call.imp = "bodleian")
        => /\ BeginsWith(call.in, "Rawl.", "poet.")
                 => call.out = <<"Rawlinson", "Poet.">>
           /\ BeginsWith(call.in, "Rawl.", "liturg.")
                 => call.out = <<"Rawlinson", "Liturg.">>

\* ------------------------------------------------------------------- C40
\* import_harvard has run through Phase 3 and returned
Phase3Over == Ended /\ lastExit = "0" /\ cfg.imp = "Harvard"

\* C40: at the end of Phase 3, in dry-run and in --execute mode, inserted +
\* updated + db_errors is the number of records parsed in Phase 2.
C40_Phase3CountsAddUp ==
    Phase3Over
        => stats.inserted + stats.updated + stats.db_errors = Len(records)

\* an --execute run ended after Phase 3 with one record updated and one
\* whose row write raised
C40_Witness ==
    /\ Phase3Over /\ ~cfg.dry_run /\ Len(records) = 2
    /\ stats.updated = 1 /\ stats.db_errors = 1

====
